---- MODULE Spec2Model ----
(***************************************************************************)
(* Model of src/browser/websocket/getCodeBlocks.ts: the title and body     *)
(* line classifiers, the filter predicate, the resolution of the lines and *)
(* the accumulation loop of getCodeBlocks(); and of the line and character *)
(* helpers of src/browser/dom/node.ts.  A text is a sequence of            *)
(* one-character strings, so the regular expressions of the source are     *)
(* computed character by character.                                        *)
(***************************************************************************)
EXTENDS Integers, Sequences, FiniteSets, TLC

VARIABLES lines, filter, pos, currentCode, codeBlocks, pc, kinds,
          target, remote, pullCalls, page, value, result

vars == <<lines, filter, pos, currentCode, codeBlocks, pc, kinds,
          target, remote, pullCalls, page, value, result>>

\* the page of the browser (scrapbox.Page.lines), the argument of a helper
\* of browser/dom/node.ts and what the helper returned
nodeVars == <<page, value, result>>

\* the argument `target`, the document behind it and the calls of pull()
callVars == <<target, remote, pullCalls>>

-----------------------------------------------------------------------------
(* Bounds of the model *)

MaxLines == 3
MaxIndent == 2
MaxNameLen == 5
MaxFrameLines == 4
MaxCallLines == 2
MaxPageLines == 2
MaxChars == 3

-----------------------------------------------------------------------------
(* Values *)

\* `null` where the source returns an object or null
Null == [null |-> TRUE]
\* `null` as the result of String.prototype.match (a match is never empty)
NullMatch == <<>>
\* `undefined`: an optional string that is absent, an unmatched group
Undefined == <<"undefined">>
\* `nextLine: null`; a present Line is a record [id, text]
NullLine == [null |-> TRUE]
\* `undefined` where the source returns a number, a Line or undefined
None == [undefined |-> TRUE]

\* characters matched by \s
WhiteSpace == {" "}

IsSpace(c) == c \in WhiteSpace

Spaces(n) == [k \in 1..n |-> " "]

Drop(s, n) == SubSeq(s, n + 1, Len(s))

Take(s, n) == SubSeq(s, 1, n)

StartsWith(s, p) == Len(s) >= Len(p) /\ Take(s, Len(p)) = p

AllSpace(s) == \A k \in 1..Len(s) : IsSpace(s[k])

SetMin(S) == CHOOSE m \in S : \A n \in S : m <= n

SetMax(S) == CHOOSE m \in S : \A n \in S : m >= n

Smaller(a, b) == IF a <= b THEN a ELSE b

\* length of the capture of a leading greedy (\s*)
RECURSIVE LeadingSpaces(_)
LeadingSpaces(s) ==
  IF s = <<>> \/ ~IsSpace(Head(s)) THEN 0 ELSE 1 + LeadingSpaces(Tail(s))

\* String.prototype.trim
RECURSIVE TrimEnd(_)
TrimEnd(s) ==
  IF s = <<>> \/ ~IsSpace(s[Len(s)]) THEN s ELSE TrimEnd(Take(s, Len(s) - 1))

Trim(s) == TrimEnd(Drop(s, LeadingSpaces(s)))

\* the literal "code:"
CodePrefix == <<"c", "o", "d", "e", ":">>

-----------------------------------------------------------------------------
\* The title pattern of extractFromCodeTitle: leading white space (group 1),
\* the literal "code:", a lazy non-empty name (group 2), an optional tag in
\* parentheses (group 3), white space to the end of the text.
\* The result is <<whole, group 1, group 2, group 3>> or NullMatch.
\* Group 2 is lazy: it takes the least number n >= 1 of characters after
\* which the rest is an optional tag followed by white space only; at a
\* given n the tag (an opening parenthesis, one character or more, a closing
\* parenthesis) is tried first.

TagEnds(rest, n) ==
  {j \in (n + 3)..Len(rest) :
     /\ rest[n + 1] = "("
     /\ rest[j] = ")"
     /\ AllSpace(Drop(rest, j))}

TitleMatch(lineText) ==
  LET k    == LeadingSpaces(lineText)
      rest == Drop(lineText, k + Len(CodePrefix))
      Ok(n) == TagEnds(rest, n) # {} \/ AllSpace(Drop(rest, n))
      ns   == {n \in 1..Len(rest) : Ok(n)}
  IN  IF ~StartsWith(Drop(lineText, k), CodePrefix) \/ ns = {}
      THEN NullMatch
      ELSE LET n == SetMin(ns)
           IN  << lineText,
                  Take(lineText, k),
                  Take(rest, n),
                  IF TagEnds(rest, n) # {}
                  THEN SubSeq(rest, n + 1, SetMax(TagEnds(rest, n)))
                  ELSE Undefined >>

\* The extension pattern of extractFromCodeTitle: one character or more
\* (greedy), a dot, the rest of the name (group 1).  The result is
\* <<whole, group 1>> or NullMatch.  The greedy prefix needs one character
\* or more before the dot it stops at, so the dot is the last one of the
\* name that is not its first character.
ExtMatch(fileName) ==
  LET dots == {d \in 2..Len(fileName) : fileName[d] = "."}
  IN  IF dots = {} THEN NullMatch
      ELSE << fileName, Drop(fileName, SetMax(dots)) >>

extractFromCodeTitle(lineText) ==
  LET matched == TitleMatch(lineText)
  IN  IF matched = NullMatch THEN Null
      ELSE LET fileName == Trim(matched[3])
               ext      == ExtMatch(fileName)
           IN  IF matched[4] = Undefined
               THEN IF ext = NullMatch
                    THEN [fileName |-> fileName, lang |-> fileName,
                          indent |-> Len(matched[2])]
                    ELSE IF ext[2] = <<>>
                         THEN Null
                         ELSE [fileName |-> fileName, lang |-> ext[2],
                               indent |-> Len(matched[2])]
               ELSE [fileName |-> fileName, lang |-> matched[4],
                     indent |-> Len(matched[2])]

\* truthiness of an optional string: undefined and "" are falsy
Truthy(s) == s # Undefined /\ s # <<>>

\* filter?.filename, filter?.lang
FilterFilename(f) == IF f = Null THEN Undefined ELSE f.filename

FilterLang(f) == IF f = Null THEN Undefined ELSE f.lang

isMatchFilter(codeTitle, f) ==
  IF Truthy(FilterFilename(f)) /\ FilterFilename(f) # codeTitle.fileName
  THEN FALSE
  ELSE IF Truthy(FilterLang(f)) /\ FilterLang(f) # codeTitle.lang
       THEN FALSE
       ELSE TRUE

\* extractFromCodeBody with the comparison off by one: a line indented
\* exactly as the title is taken as a body line
extractFromCodeBody_lt(lineText, titleIndent) ==
  LET n      == LeadingSpaces(lineText)
      indent == Take(lineText, n)
      body   == Drop(lineText, n)
  IN  IF Len(indent) < titleIndent THEN Null
      ELSE [text |-> Drop(indent, Len(indent) - titleIndent) \o body]

\* The body pattern (leading white space, then anything) always matches a
\* text without line terminators; the result is the body text, or Null for
\* a line that is not indented deeper than the title.
extractFromCodeBody(lineText, titleIndent) ==
  LET n      == LeadingSpaces(lineText)
      indent == Take(lineText, n)
      body   == Drop(lineText, n)
  IN  IF Len(indent) <= titleIndent THEN Null
      ELSE [text |-> Drop(indent, Len(indent) - titleIndent) \o body]

-----------------------------------------------------------------------------
(* Inputs *)

Str_d_py == <<"d", ".", "p", "y">>
Str_e_py == <<"e", ".", "p", "y">>
Str_b_js == <<"b", "(", "j", "s", ")">>
Str_py == <<"p", "y">>
Str_js == <<"j", "s">>

\* what follows the indentation of a line
Contents ==
  { CodePrefix \o Str_d_py, CodePrefix \o Str_e_py, CodePrefix \o Str_b_js,
    <<"z">>, <<>> }

LineTexts == {Spaces(n) \o c : n \in 0..MaxIndent, c \in Contents}

\* Line[]: a Line has an identity (its id) and a text
MkLines(texts) == [k \in 1..Len(texts) |-> [id |-> k, text |-> texts[k]]]

LineSeqs == {MkLines(t) : t \in UNION {[1..n -> LineTexts] : n \in 0..MaxLines}}

\* GetCodeBlocksFilter, or Null when the argument is omitted
MkFilter(filename, lang) == [filename |-> filename, lang |-> lang]

Filters ==
  { Null,
    MkFilter(Undefined, Str_py),
    MkFilter(Undefined, Str_js),
    MkFilter(Str_d_py, Undefined),
    MkFilter(Undefined, <<>>) }

\* characters of the names that follow "code:" on a title line
NameChars == {"a", "b", ".", "(", ")", " "}

Names == UNION {[1..n -> NameChars] : n \in 0..MaxNameLen}

\* one line: an indentation, "code:" and a name
TitleLines ==
  {MkLines(<< Spaces(n) \o CodePrefix \o f >>) : n \in 0..1, f \in Names}

TitleFilters == {Null, MkFilter(Undefined, <<"a">>)}

\* lines of inputs with several blocks: a title, a title with a tag, a
\* title line indented deeper, a body line and a line that is neither
FrameTexts ==
  { CodePrefix \o Str_d_py,
    CodePrefix \o Str_b_js,
    Spaces(1) \o CodePrefix \o Str_d_py,
    <<" ", "z">>,
    <<"z">> }

FrameLineSeqs ==
  {MkLines(t) : t \in UNION {[1..n -> FrameTexts] : n \in 0..MaxFrameLines}}

FrameFilters == {Null, MkFilter(Undefined, Str_py)}

\* the worked inputs of the documentation of the extractor
Scenarios ==
  { [lines  |-> MkLines(<< CodePrefix \o <<"a", ".", "t", "x", "t">>,
                           <<" ", " ", "h", "e", "l", "l", "o">>,
                           <<" ", " ", "w", "o", "r", "l", "d">>,
                           <<"d", "o", "n", "e">> >>),
     filter |-> Null],
    [lines  |-> MkLines(<< Spaces(2) \o CodePrefix \o Str_b_js,
                           <<" ", " ", " ", " ", "x", "=", "1">>,
                           <<" ", " ", "y">> >>),
     filter |-> Null],
    [lines  |-> MkLines(<< CodePrefix \o <<"c", ".">>,
                           <<"t", "e", "x", "t">> >>),
     filter |-> Null],
    [lines  |-> MkLines(<< CodePrefix \o Str_d_py, CodePrefix \o Str_e_py,
                           <<" ", " ", "z">> >>),
     filter |-> MkFilter(Undefined, Str_py)],
    [lines  |-> MkLines(<< >>),
     filter |-> Null] }

-----------------------------------------------------------------------------
(* getCodeBlocks: the state after `await getLines(target)` and the loop *)

\* no helper of browser/dom/node.ts is involved
NodeIdle ==
  /\ page = <<>>
  /\ value = None
  /\ result = [op |-> "none"]

InitLocals ==
  /\ pos = 1
  /\ currentCode = [isCodeBlock |-> FALSE, isCollect |-> FALSE,
                    fileName |-> <<>>, lang |-> <<>>, indent |-> 0]
  /\ codeBlocks = <<>>
  /\ pc = "loop"
  /\ kinds = <<>>
  /\ target = [lines |-> lines]
  /\ remote = Null
  /\ pullCalls = 0
  /\ NodeIdle

Init ==
  /\ \/ lines \in LineSeqs /\ filter \in Filters
     \/ \E s \in Scenarios : lines = s.lines /\ filter = s.filter
  /\ InitLocals

\* one title line over all names, and the worked inputs under every filter
InitTitle ==
  /\ \/ lines \in TitleLines /\ filter \in TitleFilters
     \/ \E s \in Scenarios : lines = s.lines /\ filter \in Filters
  /\ InitLocals

\* longer inputs over few lines, with and without a filter
InitFrame ==
  /\ lines \in FrameLineSeqs
  /\ filter \in FrameFilters
  /\ InitLocals

\* the line of the current iteration of `for (const line of lines)`
line == lines[pos]

InLoop == pc = "loop" /\ pos <= Len(lines)

\* codeBlocks[codeBlocks.length - 1]
last == Len(codeBlocks)

Advance(kind) ==
  /\ pos' = pos + 1
  /\ kinds' = Append(kinds, [id |-> line.id, kind |-> kind])
  /\ UNCHANGED <<lines, filter, callVars, nodeVars>>

\* an access to a property of codeBlocks[-1] throws a TypeError
Throw ==
  /\ pc' = "error"
  /\ UNCHANGED <<codeBlocks, currentCode>>

\* BodyTerminate without `currentCode.isCodeBlock = false`
BodyTerminate_keepOpen ==
  /\ InLoop
  /\ currentCode.isCodeBlock
  /\ extractFromCodeBody(line.text, currentCode.indent) = Null
  /\ Advance("terminator")
  /\ IF currentCode.isCollect /\ last = 0
     THEN Throw
     ELSE /\ codeBlocks' =
               IF currentCode.isCollect
               THEN [codeBlocks EXCEPT ![last].nextLine = line]
               ELSE codeBlocks
          /\ UNCHANGED <<currentCode, pc>>

\* isCodeBlock, body === null
BodyTerminate ==
  /\ InLoop
  /\ currentCode.isCodeBlock
  /\ extractFromCodeBody(line.text, currentCode.indent) = Null
  /\ Advance("terminator")
  /\ IF currentCode.isCollect /\ last = 0
     THEN Throw
     ELSE /\ codeBlocks' =
               IF currentCode.isCollect
               THEN [codeBlocks EXCEPT ![last].nextLine = line]
               ELSE codeBlocks
          /\ currentCode' = [currentCode EXCEPT !.isCodeBlock = FALSE]
          /\ pc' = pc

\* BodySkip without `if (!currentCode.isCollect) continue`
BodySkip_push ==
  /\ InLoop
  /\ currentCode.isCodeBlock
  /\ extractFromCodeBody(line.text, currentCode.indent) # Null
  /\ ~currentCode.isCollect
  /\ Advance("body")
  /\ codeBlocks' =
       IF last = 0 THEN codeBlocks
       ELSE [codeBlocks EXCEPT ![last].bodyLines = Append(@, line)]
  /\ UNCHANGED <<currentCode, pc>>

\* isCodeBlock, body !== null, !isCollect
BodySkip ==
  /\ InLoop
  /\ currentCode.isCodeBlock
  /\ extractFromCodeBody(line.text, currentCode.indent) # Null
  /\ ~currentCode.isCollect
  /\ Advance("body")
  /\ UNCHANGED <<codeBlocks, currentCode, pc>>

\* BodyPush that also opens a block when the body line is a title line
BodyPush_opens ==
  /\ InLoop
  /\ currentCode.isCodeBlock
  /\ extractFromCodeBody(line.text, currentCode.indent) # Null
  /\ currentCode.isCollect
  /\ Advance("body")
  /\ IF last = 0
     THEN Throw
     ELSE /\ codeBlocks' =
               LET pushed ==
                     [codeBlocks EXCEPT ![last].bodyLines = Append(@, line)]
                   matched == extractFromCodeTitle(line.text)
               IN  IF matched = Null THEN pushed
                   ELSE Append(pushed,
                          [filename |-> matched.fileName,
                           lang |-> matched.lang,
                           titleLine |-> line, bodyLines |-> <<>>,
                           nextLine |-> NullLine])
          /\ UNCHANGED <<currentCode, pc>>

\* BodyPush storing the computed body text in place of the line read
BodyPush_computed ==
  /\ InLoop
  /\ currentCode.isCodeBlock
  /\ extractFromCodeBody(line.text, currentCode.indent) # Null
  /\ currentCode.isCollect
  /\ Advance("body")
  /\ IF last = 0
     THEN Throw
     ELSE /\ codeBlocks' =
               [codeBlocks EXCEPT ![last].bodyLines =
                  Append(@, [id |-> line.id,
                             text |-> extractFromCodeBody(line.text,
                                        currentCode.indent).text])]
          /\ UNCHANGED <<currentCode, pc>>

\* isCodeBlock, body !== null, isCollect
BodyPush ==
  /\ InLoop
  /\ currentCode.isCodeBlock
  /\ extractFromCodeBody(line.text, currentCode.indent) # Null
  /\ currentCode.isCollect
  /\ Advance("body")
  /\ IF last = 0
     THEN Throw
     ELSE /\ codeBlocks' =
               [codeBlocks EXCEPT ![last].bodyLines = Append(@, line)]
          /\ UNCHANGED <<currentCode, pc>>

\* !isCodeBlock, matched === null
TitleNone ==
  /\ InLoop
  /\ ~currentCode.isCodeBlock
  /\ extractFromCodeTitle(line.text) = Null
  /\ Advance("nontitle")
  /\ currentCode' = [currentCode EXCEPT !.isCodeBlock = FALSE]
  /\ UNCHANGED <<codeBlocks, pc>>

\* currentCode = { isCodeBlock: true, isCollect: isCollect, ...matched }
OpenCode(matched, isCollect) ==
  [isCodeBlock |-> TRUE, isCollect |-> isCollect,
   fileName |-> matched.fileName, lang |-> matched.lang,
   indent |-> matched.indent]

\* !isCodeBlock, matched !== null, !isCollect
TitleReject ==
  /\ InLoop
  /\ ~currentCode.isCodeBlock
  /\ LET matched == extractFromCodeTitle(line.text)
     IN  /\ matched # Null
         /\ ~isMatchFilter(matched, filter)
         /\ currentCode' = OpenCode(matched, FALSE)
  /\ Advance("title")
  /\ UNCHANGED <<codeBlocks, pc>>

\* TitleOpen without `codeBlocks.push(...)`
TitleOpen_noPush ==
  /\ InLoop
  /\ ~currentCode.isCodeBlock
  /\ LET matched == extractFromCodeTitle(line.text)
     IN  /\ matched # Null
         /\ isMatchFilter(matched, filter)
         /\ currentCode' = OpenCode(matched, TRUE)
         /\ codeBlocks' = codeBlocks
  /\ Advance("title")
  /\ pc' = pc

\* !isCodeBlock, matched !== null, isCollect
TitleOpen ==
  /\ InLoop
  /\ ~currentCode.isCodeBlock
  /\ LET matched == extractFromCodeTitle(line.text)
     IN  /\ matched # Null
         /\ isMatchFilter(matched, filter)
         /\ currentCode' = OpenCode(matched, TRUE)
         /\ codeBlocks' = Append(codeBlocks,
              [filename |-> matched.fileName, lang |-> matched.lang,
               titleLine |-> line, bodyLines |-> <<>>,
               nextLine |-> NullLine])
  /\ Advance("title")
  /\ pc' = pc

\* return codeBlocks
Return ==
  /\ pc = "loop"
  /\ pos > Len(lines)
  /\ pc' = "done"
  /\ UNCHANGED <<lines, filter, pos, currentCode, codeBlocks, kinds, callVars, nodeVars>>

Next ==
  \/ BodyTerminate
  \/ BodySkip
  \/ BodyPush
  \/ TitleNone
  \/ TitleReject
  \/ TitleOpen
  \/ Return

Spec == Init /\ [][Next]_vars

SpecTitle == InitTitle /\ [][Next]_vars

SpecFrame == InitFrame /\ [][Next]_vars

-----------------------------------------------------------------------------
(* getCodeBlocks from the call on: `await getLines(target)`, then the loop *)

\* pull(project, title) for the document behind the title: it resolves to
\* the page with its lines, or rejects when the document is not resolved
pull(doc) ==
  IF doc = Null THEN [rejected |-> TRUE]
  ELSE [rejected |-> FALSE, head |-> [lines |-> doc.lines]]

CallLines ==
  {MkLines(t) : t \in UNION {[1..n -> FrameTexts] : n \in 0..MaxCallLines}}

\* { lines: Line[] } or { project, title }
Targets ==
  {[lines |-> ls] : ls \in CallLines}
    \cup {[project |-> "project", title |-> "title"]}

\* the document a title resolves to, or Null when there is none
Remotes == {Null} \cup {[lines |-> ls] : ls \in CallLines}

InitCall ==
  /\ target \in Targets
  /\ remote \in Remotes
  /\ filter \in FrameFilters
  /\ pullCalls = 0
  /\ lines = <<>>
  /\ pos = 1
  /\ currentCode = [isCodeBlock |-> FALSE, isCollect |-> FALSE,
                    fileName |-> <<>>, lang |-> <<>>, indent |-> 0]
  /\ codeBlocks = <<>>
  /\ pc = "call"
  /\ kinds = <<>>
  /\ NodeIdle

\* getLines: "lines" in target
GetLinesLoaded ==
  /\ pc = "call"
  /\ "lines" \in DOMAIN target
  /\ lines' = target.lines
  /\ pc' = "loop"
  /\ UNCHANGED <<filter, pos, currentCode, codeBlocks, kinds, callVars, nodeVars>>

\* getLines: pull(target.project, target.title) is called and awaited
GetLinesPull ==
  /\ pc = "call"
  /\ "lines" \notin DOMAIN target
  /\ pullCalls' = pullCalls + 1
  /\ pc' = "pull"
  /\ UNCHANGED <<lines, filter, pos, currentCode, codeBlocks, kinds,
                 target, remote, nodeVars>>

\* PullReject with the failure caught and an empty page in its place
PullReject_caught ==
  /\ pc = "pull"
  /\ pull(remote).rejected
  /\ lines' = <<>>
  /\ pc' = "loop"
  /\ UNCHANGED <<filter, pos, currentCode, codeBlocks, kinds, callVars, nodeVars>>

\* the awaited pull() rejects: nothing catches it in getLines or in
\* getCodeBlocks, whose promise rejects
PullReject ==
  /\ pc = "pull"
  /\ pull(remote).rejected
  /\ pc' = "rejected"
  /\ UNCHANGED <<lines, filter, pos, currentCode, codeBlocks, kinds,
                 callVars, nodeVars>>

\* PullResolve that calls pull() once more before it goes on
PullResolve_again ==
  /\ pc = "pull"
  /\ ~pull(remote).rejected
  /\ lines' = pull(remote).head.lines
  /\ pullCalls' = pullCalls + 1
  /\ pc' = "loop"
  /\ UNCHANGED <<filter, pos, currentCode, codeBlocks, kinds, target, remote, nodeVars>>

\* the awaited pull() resolves: `return head.lines`
PullResolve ==
  /\ pc = "pull"
  /\ ~pull(remote).rejected
  /\ lines' = pull(remote).head.lines
  /\ pc' = "loop"
  /\ UNCHANGED <<filter, pos, currentCode, codeBlocks, kinds, callVars, nodeVars>>

NextCall ==
  \/ GetLinesLoaded
  \/ GetLinesPull
  \/ PullReject
  \/ PullResolve
  \/ BodyTerminate
  \/ BodySkip
  \/ BodyPush
  \/ TitleNone
  \/ TitleReject
  \/ TitleOpen
  \/ Return

SpecCall == InitCall /\ [][NextCall]_vars

-----------------------------------------------------------------------------
(* getCodeBlocks as a function of the lines and the filter: the loop run   *)
(* over lines[k..], from the locals st = [currentCode, codeBlocks, error]  *)

RECURSIVE Loop(_, _, _, _)
Loop(ls, f, k, st) ==
  IF k > Len(ls) \/ st.error THEN st
  ELSE
    LET cur  == st.currentCode
        out  == st.codeBlocks
        n    == Len(out)
        body == extractFromCodeBody(ls[k].text, cur.indent)
        matched == extractFromCodeTitle(ls[k].text)
    IN  IF cur.isCodeBlock
        THEN IF body = Null
             THEN IF cur.isCollect /\ n = 0
                  THEN [st EXCEPT !.error = TRUE]
                  ELSE Loop(ls, f, k + 1,
                         [st EXCEPT
                            !.codeBlocks =
                               IF cur.isCollect
                               THEN [out EXCEPT ![n].nextLine = ls[k]]
                               ELSE out,
                            !.currentCode.isCodeBlock = FALSE])
             ELSE IF ~cur.isCollect
                  THEN Loop(ls, f, k + 1, st)
                  ELSE IF n = 0
                       THEN [st EXCEPT !.error = TRUE]
                       ELSE Loop(ls, f, k + 1,
                              [st EXCEPT !.codeBlocks[n].bodyLines =
                                           Append(@, ls[k])])
        ELSE IF matched = Null
             THEN Loop(ls, f, k + 1,
                       [st EXCEPT !.currentCode.isCodeBlock = FALSE])
             ELSE IF ~isMatchFilter(matched, f)
                  THEN Loop(ls, f, k + 1,
                         [st EXCEPT !.currentCode = OpenCode(matched, FALSE)])
                  ELSE Loop(ls, f, k + 1,
                         [st EXCEPT
                            !.currentCode = OpenCode(matched, TRUE),
                            !.codeBlocks = Append(out,
                               [filename |-> matched.fileName,
                                lang |-> matched.lang,
                                titleLine |-> ls[k], bodyLines |-> <<>>,
                                nextLine |-> NullLine])])

\* the blocks returned for the lines ls and the filter f
getCodeBlocks(ls, f) ==
  Loop(ls, f, 1,
       [currentCode |-> [isCodeBlock |-> FALSE, isCollect |-> FALSE,
                         fileName |-> <<>>, lang |-> <<>>, indent |-> 0],
        codeBlocks |-> <<>>,
        error |-> FALSE]).codeBlocks

-----------------------------------------------------------------------------
(* browser/dom/node.ts: the line and character helpers over the page *)

\* a number
Number(n) == [number |-> n]

isNone(v) == v = None

isNumber(v) == "number" \in DOMAIN v

isString(v) == "string" \in DOMAIN v

\* getLines(): scrapbox.Page.lines
getLines == page

\* getLines()[n], for the index n counted from 0
LineAt(n) == IF n + 1 \in 1..Len(getLines) THEN getLines[n + 1] ELSE None

\* getLines().findIndex((line) => line.id === id)
FindIndex(id) ==
  LET found == {i \in 1..Len(getLines) : getLines[i].id = id}
  IN  IF found = {} THEN -1 ELSE SetMin(found) - 1

\* getLines().find((line) => line.id === id)
Find(id) ==
  LET found == {i \in 1..Len(getLines) : getLines[i].id = id}
  IN  IF found = {} THEN None ELSE getLines[SetMin(found)]

\* a string, or Undefined
getLineId(v) ==
  IF isNone(v) THEN Undefined
  ELSE IF isNumber(v)
       THEN IF LineAt(v.number) = None THEN Undefined
            ELSE LineAt(v.number).id
  ELSE IF isString(v)
       THEN IF StartsWith(v.string, <<"L">>) THEN Drop(v.string, 1)
            ELSE v.string
  ELSE IF "line" \in v.classList THEN Drop(v.id, 1)
  ELSE IF v.closestLine # None THEN Drop(v.closestLine.id, 1)
  ELSE Undefined

getLineNo(v) ==
  IF isNone(v) THEN None
  ELSE IF isNumber(v) THEN v
  ELSE LET id == getLineId(v)
       IN  IF Truthy(id) THEN Number(FindIndex(id)) ELSE Number(-1)

getLine(v) ==
  IF isNone(v) THEN None
  ELSE IF isNumber(v) THEN LineAt(v.number)
  ELSE LET id == getLineId(v)
       IN  IF Truthy(id) THEN Find(id) ELSE None

getNextLine(v) ==
  LET index == getLineNo(v)
  IN  IF isNone(index) THEN None ELSE getLine(Number(index.number + 1))

getPrevLine(v) ==
  LET index == getLineNo(v)
  IN  IF isNone(index) THEN None ELSE getLine(Number(index.number - 1))

\* the elements the generator yields, in the order it yields them; chars is
\* value.getElementsByClassName("char-index"), in document order
getChars(v) == [i \in 1..Len(v.chars) |-> v.chars[1]]

\* the column of a character element, from its class c-N
getIndex(dom) == dom.c

\* getText for undefined, a number, a string, a line element and an element
\* inside a line (no character element, no container of the lines)
getText(v) ==
  IF isNone(v) THEN None
  ELSE IF isNumber(v) \/ isString(v) \/ "line" \in v.classList
       THEN IF getLine(v) = None THEN None ELSE [text |-> getLine(v).text]
  ELSE LET l     == getLine(v)
           chars == {getIndex(getChars(v)[i]) : i \in 1..Len(getChars(v))}
       IN  IF isNone(l) THEN None
           ELSE IF chars = {} THEN [text |-> <<>>]
           ELSE [text |-> SubSeq(l.text, SetMin(chars) + 1,
                                 Smaller(SetMax(chars) + 1, Len(l.text)))]

LineIds == {<<"1">>, <<"2">>, <<"3">>}

\* a line of the page: its text starts with its id
PageLine(id) == [id |-> id, text |-> id \o <<"b", "c">>]

\* pages of lines with distinct ids
Pages ==
  {ls \in UNION {[1..n -> {PageLine(id) : id \in LineIds}]
                   : n \in 0..MaxPageLines} :
     \A i \in 1..Len(ls) : \A j \in 1..Len(ls) : ls[i] = ls[j] => i = j}

\* line ids as strings: ids of lines, an id of no line, the empty id, each
\* with and without the leading "L"
IdStrings ==
  LET ids == LineIds \cup {<<"9">>, <<>>}
  IN  ids \cup {<<"L">> \o id : id \in ids}

\* the character elements inside an element: columns 0, 1, ...
CharLists == {[i \in 1..n |-> [c |-> i - 1]] : n \in 0..MaxChars}

\* div.line elements, and elements inside a line or outside of every line
Elements ==
  {[classList |-> {"line"}, id |-> <<"L">> \o id, closestLine |-> None,
    chars |-> cs] : id \in LineIds \cup {<<"9">>}, cs \in CharLists}
    \cup
  {[classList |-> {}, id |-> <<>>, closestLine |-> cl, chars |-> cs] :
     cl \in {None} \cup {[id |-> <<"L">> \o id] : id \in {<<"1">>, <<"9">>}},
     cs \in CharLists}

Values ==
  {None}
    \cup {Number(n) : n \in -1..(MaxPageLines + 1)}
    \cup {[string |-> str] : str \in IdStrings}
    \cup Elements

InitNode ==
  /\ page \in Pages
  /\ value \in Values
  /\ result = [op |-> "none"]
  /\ lines = <<>>
  /\ filter = Null
  /\ pos = 1
  /\ currentCode = [isCodeBlock |-> FALSE, isCollect |-> FALSE,
                    fileName |-> <<>>, lang |-> <<>>, indent |-> 0]
  /\ codeBlocks = <<>>
  /\ pc = "node"
  /\ kinds = <<>>
  /\ target = [lines |-> lines]
  /\ remote = Null
  /\ pullCalls = 0

Returns(op, ret) ==
  /\ pc = "node"
  /\ result = [op |-> "none"]
  /\ result' = [op |-> op, ret |-> ret]
  /\ UNCHANGED <<lines, filter, pos, currentCode, codeBlocks, pc, kinds,
                 callVars, page, value>>

CallGetLineNo ==
  /\ value \in Values
  /\ Returns("getLineNo", getLineNo(value))

CallGetNextLine ==
  /\ value \in Values
  /\ Returns("getNextLine", getNextLine(value))

CallGetPrevLine ==
  /\ value \in Values
  /\ Returns("getPrevLine", getPrevLine(value))

CallGetChars ==
  /\ value \in Elements
  /\ Returns("getChars", getChars(value))

CallGetText ==
  /\ value \in Values
  /\ Returns("getText", getText(value))

NextNode ==
  \/ CallGetLineNo
  \/ CallGetNextLine
  \/ CallGetPrevLine
  \/ CallGetChars
  \/ CallGetText

SpecNode == InitNode /\ [][NextNode]_vars

-----------------------------------------------------------------------------
(* Properties *)

Texts(ls) == [k \in 1..Len(ls) |-> ls[k].text]

Ids(ls) == [k \in 1..Len(ls) |-> ls[k].id]

\* leading-whitespace length of input line j
IndentOf(j) == LeadingSpaces(lines[j].text)

\* the last line of the maximal run of lines after line t that are indented
\* deeper than line t (t itself when the run is empty)
RunEnd(t) ==
  SetMax({e \in t..Len(lines) :
            \A j \in (t + 1)..e : IndentOf(j) > IndentOf(t)})

\* the lines t+1 .. e, as positions
Range(t, e) == [k \in 1..(e - t) |-> t + k]

\* the line at position j has been read and opened a block in the output
Collected(j) == \E b \in 1..Len(codeBlocks) : codeBlocks[b].titleLine = lines[j]

\* the filter as an exact-match predicate: a condition that is present must
\* equal the value, one that is absent imposes nothing
ExactMatch(f, filename, lang) ==
  \/ f = Null
  \/ /\ f.filename = Undefined \/ f.filename = filename
     /\ f.lang = Undefined \/ f.lang = lang

\* C1: a line that terminates the open block and is itself a valid title
\* line opens a new block (emitted when it matches the filter); for
\* "code:d.py", "code:e.py", "  z" with filter lang "py" the output has two
\* blocks, the first with no body and nextLine the second title line, the
\* second with the deeper line as its body and no nextLine.
C1_TerminatorTitleOpens ==
  pc = "done" =>
    /\ \A j \in 1..Len(lines) :
         LET t == extractFromCodeTitle(lines[j].text)
         IN  (kinds[j].kind = "terminator" /\ t # Null
                /\ isMatchFilter(t, filter))
               => Collected(j)
    /\ (Texts(lines) = << CodePrefix \o Str_d_py, CodePrefix \o Str_e_py,
                          <<" ", " ", "z">> >>
          /\ filter = MkFilter(Undefined, Str_py))
         => /\ Len(codeBlocks) = 2
            /\ codeBlocks[1].bodyLines = <<>>
            /\ codeBlocks[1].nextLine = lines[2]
            /\ codeBlocks[2].titleLine = lines[2]
            /\ codeBlocks[2].bodyLines = << lines[3] >>
            /\ codeBlocks[2].nextLine = NullLine

\* the text between the parentheses of a tag
Inner(tag) == SubSeq(tag, 2, Len(tag) - 1)

\* C2: when the title line just read carries a tag in parentheses, the lang
\* of the recognized title (and of the block it opens) is the text inside
\* the parentheses, and a filter on that lang collects the block.
C2_TagLangStripped ==
  \A j \in 1..Len(kinds) :
    LET m == TitleMatch(lines[j].text)
    IN  (pos = j + 1 /\ kinds[j].kind = "title" /\ m[4] # Undefined)
          => /\ currentCode.lang = Inner(m[4])
             /\ FilterLang(filter) = Inner(m[4])
                  /\ FilterFilename(filter) = Undefined
                  => /\ Collected(j)
                     /\ codeBlocks[Len(codeBlocks)].lang = Inner(m[4])

HasDot(f) == \E d \in 1..Len(f) : f[d] = "."

AfterLastDot(f) == Drop(f, SetMax({d \in 1..Len(f) : f[d] = "."}))

\* C5: when the first line matches the title pattern without a tag and f is
\* its trimmed name: without a dot in f the line is a title with lang f;
\* with nothing after the last dot of f it is not a title; otherwise it is a
\* title with lang the text after the last dot of f.
C5_LangFromLastDot ==
  (pos = 2 /\ TitleMatch(lines[1].text) # NullMatch
     /\ TitleMatch(lines[1].text)[4] = Undefined)
    => LET f == Trim(TitleMatch(lines[1].text)[3])
       IN  IF ~HasDot(f)
           THEN kinds[1].kind = "title" /\ currentCode.lang = f
           ELSE IF AfterLastDot(f) = <<>>
                THEN kinds[1].kind = "nontitle" /\ codeBlocks = <<>>
                ELSE /\ kinds[1].kind = "title"
                     /\ currentCode.lang = AfterLastDot(f)

\* C7: a recognized title is collected exactly when every condition present
\* in the filter equals the title's value, the empty string included; with
\* no filter every recognized title is collected.
C7_CollectedIffExactMatch ==
  \A j \in 1..Len(kinds) :
    LET t == extractFromCodeTitle(lines[j].text)
    IN  kinds[j].kind = "title"
          => (Collected(j) <=> ExactMatch(filter, t.fileName, t.lang))

\* C8: the output for a filter is the output for no filter restricted, in
\* order, to the blocks whose filename and lang satisfy the filter.
C8_FilterIsRestriction ==
  pc = "done" =>
    codeBlocks
      = SelectSeq(getCodeBlocks(lines, Null),
                  LAMBDA b : ExactMatch(filter, b.filename, b.lang))

\* the title lines of the blocks of the input from line j on: a valid title
\* line opens a block that runs over the deeper lines after it, and the
\* line after the run is looked at again
RECURSIVE TitlesFrom(_)
TitlesFrom(j) ==
  IF j > Len(lines) THEN <<>>
  ELSE IF extractFromCodeTitle(lines[j].text) = Null THEN TitlesFrom(j + 1)
       ELSE <<j>> \o TitlesFrom(RunEnd(j) + 1)

IsPrefix(a, b) == Len(a) <= Len(b) /\ Take(b, Len(a)) = a

\* C9: the output holds one block per recognized and matched title line, in
\* source order; the output and the bodyLines of each block only grow at
\* the end.  (A title line is matched as isMatchFilter decides, so that the
\* statement does not depend on how an empty condition is read.)
C9_OnePerTitle ==
  pc = "done" =>
    Ids([b \in 1..Len(codeBlocks) |-> codeBlocks[b].titleLine])
      = SelectSeq(TitlesFrom(1),
          LAMBDA j : isMatchFilter(extractFromCodeTitle(lines[j].text),
                                   filter))

C9_AppendOnly ==
  /\ Len(codeBlocks) <= Len(codeBlocks')
  /\ \A b \in 1..Len(codeBlocks) :
       /\ codeBlocks'[b].titleLine = codeBlocks[b].titleLine
       /\ codeBlocks'[b].filename = codeBlocks[b].filename
       /\ codeBlocks'[b].lang = codeBlocks[b].lang
       /\ IsPrefix(codeBlocks[b].bodyLines, codeBlocks'[b].bodyLines)

C9_OrderedAppendOnly == []C9_OnePerTitle /\ [][C9_AppendOnly]_vars

\* C3: the bodyLines of every emitted block are exactly the lines of the
\* maximal contiguous run after its title line whose leading-whitespace
\* length exceeds the title's (as far as the loop has read them): in source
\* order, without gaps, never holding the first line that is not deeper, and
\* holding a whitespace-only line of the run.
C3_BodyIsMaximalRun ==
  \A b \in 1..Len(codeBlocks) :
    LET t == codeBlocks[b].titleLine.id
    IN  Ids(codeBlocks[b].bodyLines)
          = Range(t, Smaller(RunEnd(t), pos - 1))

C3_Witness ==
  /\ pc = "done"
  /\ \E b \in 1..Len(codeBlocks) :
       LET body == codeBlocks[b].bodyLines
       IN  /\ \E k \in 1..Len(body) :
                body[k].text # <<>> /\ AllSpace(body[k].text)
           /\ codeBlocks[b].titleLine.id + Len(body) < Len(lines)

\* C4: nextLine of an emitted block is null until the line after the block's
\* run has been read and is that line (a title line or not) afterwards, so
\* at the end it is null exactly when the run reaches the end of the input;
\* a nextLine that has been assigned is never assigned again.
C4_NextLineState ==
  \A b \in 1..Len(codeBlocks) :
    LET e == RunEnd(codeBlocks[b].titleLine.id)
    IN  /\ e + 1 <= pos - 1 => codeBlocks[b].nextLine = lines[e + 1]
        /\ e + 1 > pos - 1 => codeBlocks[b].nextLine = NullLine
        /\ pc = "done" => (codeBlocks[b].nextLine = NullLine <=> e = Len(lines))

C4_AssignedOnce ==
  \A b \in 1..Len(codeBlocks) :
    codeBlocks[b].nextLine # NullLine
      => /\ b <= Len(codeBlocks')
         /\ codeBlocks'[b].nextLine = codeBlocks[b].nextLine

C4_NextLine == []C4_NextLineState /\ [][C4_AssignedOnce]_vars

C4_Witness ==
  /\ pc = "done"
  /\ \E b \in 1..Len(codeBlocks) :
       /\ codeBlocks[b].nextLine # NullLine
       /\ extractFromCodeTitle(codeBlocks[b].nextLine.text) # Null
       /\ codeBlocks[b].bodyLines # <<>>

\* C6 as stated: every entry of bodyLines carries the computed body text
C6_BodyTextComputed ==
  \A b \in 1..Len(codeBlocks) :
    \A k \in 1..Len(codeBlocks[b].bodyLines) :
      LET l == codeBlocks[b].bodyLines[k]
      IN  [text |-> l.text]
            = extractFromCodeBody(lines[l.id].text,
                                  IndentOf(codeBlocks[b].titleLine.id))

\* the first worked input: "code:a.txt", "  hello", "  world", "done"
Scenario1 ==
  MkLines(<< CodePrefix \o <<"a", ".", "t", "x", "t">>,
             <<" ", " ", "h", "e", "l", "l", "o">>,
             <<" ", " ", "w", "o", "r", "l", "d">>,
             <<"d", "o", "n", "e">> >>)

\* C6 (amended): every entry of bodyLines is the input line itself, with its
\* raw text; for the first worked input the texts of the body lines are
\* "  hello" and "  world".
C6_BodyLinesAreInputLines ==
  /\ \A b \in 1..Len(codeBlocks) :
       \A k \in 1..Len(codeBlocks[b].bodyLines) :
         codeBlocks[b].bodyLines[k] = lines[codeBlocks[b].bodyLines[k].id]
  /\ (pc = "done" /\ lines = Scenario1 /\ filter = Null)
       => /\ Len(codeBlocks) = 1
          /\ Texts(codeBlocks[1].bodyLines)
               = << <<" ", " ", "h", "e", "l", "l", "o">>,
                    <<" ", " ", "w", "o", "r", "l", "d">> >>

C6_Witness ==
  /\ pc = "done"
  /\ lines = Scenario1
  /\ Len(codeBlocks) = 1
  /\ Len(codeBlocks[1].bodyLines) = 2

LineKinds == {"title", "body", "terminator", "nontitle"}

\* C10: the loop raises no error (codeBlocks[-1] is never accessed while
\* codeBlocks is empty), reads every input line once and in order, gives
\* each line one classification, and ends after the last line: every step
\* either reads the next line or returns after the last one, so the number
\* of steps is the input length plus one.  The empty input gives the empty
\* output.
C10_Safe ==
  /\ pc # "error"
  /\ Len(kinds) = pos - 1
  /\ pos <= Len(lines) + 1
  /\ \A j \in 1..Len(kinds) : kinds[j].id = j /\ kinds[j].kind \in LineKinds
  /\ pc = "done" => pos = Len(lines) + 1
  /\ (pc = "done" /\ lines = <<>>) => codeBlocks = <<>>

C10_Progress ==
  /\ pc = "loop"
  /\ lines' = lines
  /\ \/ pc' = "loop" /\ pos <= Len(lines) /\ pos' = pos + 1
     \/ pc' = "done" /\ pos = Len(lines) + 1 /\ pos' = pos

C10_Terminates == []C10_Safe /\ [][C10_Progress]_vars

C10_Witness ==
  /\ pc = "done"
  /\ Len(lines) = MaxLines
  /\ {kinds[j].kind : j \in 1..Len(kinds)}
       = {"title", "body", "terminator"}
  /\ codeBlocks # <<>>

\* C16: for the body line just read, with leading-whitespace length I deeper
\* than the title indentation T, extractFromCodeBody returns the line
\* without its first T characters: I - T characters of indentation and then
\* the rest, of length the line length minus T; for a terminator it returns
\* null.
C16_DropsTitleIndent ==
  (pos > 1 /\ kinds[pos - 1].kind \in {"body", "terminator"})
    => LET text == lines[pos - 1].text
           T    == currentCode.indent
           r    == extractFromCodeBody(text, T)
       IN  IF LeadingSpaces(text) <= T
           THEN r = Null
           ELSE /\ r # Null
                /\ r.text = Drop(text, T)
                /\ LeadingSpaces(r.text) = LeadingSpaces(text) - T
                /\ Len(r.text) = Len(text) - T

\* C18: the title just recognized has a non-empty filename and a non-empty
\* lang, and so has every block of the output.
C18_NonEmptyNames ==
  /\ (pos > 1 /\ kinds[pos - 1].kind = "title")
       => currentCode.fileName # <<>> /\ currentCode.lang # <<>>
  /\ \A b \in 1..Len(codeBlocks) :
       codeBlocks[b].filename # <<>> /\ codeBlocks[b].lang # <<>>

\* the terminator of block b has been read
Closed(b) == RunEnd(codeBlocks[b].titleLine.id) < pos - 1

\* C15: a step changes no field of a block that is closed, and while the
\* open title was rejected by the filter a step changes nothing of the
\* output: its body lines and its terminator leave the last block alone.
C15_Frame ==
  /\ \A b \in 1..Len(codeBlocks) :
       Closed(b) => b <= Len(codeBlocks') /\ codeBlocks'[b] = codeBlocks[b]
  /\ (currentCode.isCodeBlock /\ ~currentCode.isCollect)
       => codeBlocks' = codeBlocks

C15_ClosedBlocksFrozen == [][C15_Frame]_vars

C15_Witness ==
  /\ pc = "done"
  /\ \E j \in 2..(Len(lines) - 1) :
       /\ Len(codeBlocks) >= 1
       /\ codeBlocks[Len(codeBlocks)].titleLine.id < j
       /\ codeBlocks[Len(codeBlocks)].nextLine # NullLine
       /\ kinds[j].kind = "title"
       /\ kinds[j + 1].kind = "body"

\* the input lines of block b: its title line and its body lines
BlockLines(b) ==
  {codeBlocks[b].titleLine.id}
    \cup {codeBlocks[b].bodyLines[k].id : k \in 1..Len(codeBlocks[b].bodyLines)}

\* C17: the blocks of the output share no line and only the last one can be
\* open; a line that matches the title pattern and is indented deeper than
\* the open title is read as a body line of the open block and opens no
\* block.
C17_Disjoint ==
  /\ \A b \in 1..Len(codeBlocks) : \A c \in 1..Len(codeBlocks) :
       b # c => BlockLines(b) \cap BlockLines(c) = {}
  /\ \A b \in 1..(Len(codeBlocks) - 1) : Closed(b)

C17_DeeperTitleIsBody ==
  (/\ InLoop
   /\ currentCode.isCodeBlock
   /\ TitleMatch(line.text) # NullMatch
   /\ LeadingSpaces(line.text) > currentCode.indent)
    => /\ kinds'[pos].kind = "body"
       /\ Len(codeBlocks') = Len(codeBlocks)
       /\ currentCode' = currentCode
       /\ currentCode.isCollect
            => codeBlocks'[last].bodyLines
                 = Append(codeBlocks[last].bodyLines, line)

C17_NoNesting == []C17_Disjoint /\ [][C17_DeeperTitleIsBody]_vars

C17_Witness ==
  /\ pc = "done"
  /\ Len(codeBlocks) >= 2
  /\ \E k \in 1..Len(codeBlocks[1].bodyLines) :
       TitleMatch(codeBlocks[1].bodyLines[k].text) # NullMatch

ByTitle == "lines" \notin DOMAIN target

\* C11: a call by title whose document pull() does not resolve never reads
\* a line and never returns: it ends rejected.  A call that returned no
\* block had its lines resolved and read no title line that the filter
\* matched.
C11_State ==
  /\ (ByTitle /\ remote = Null)
       => /\ pc \in {"call", "pull", "rejected"}
          /\ kinds = <<>>
  /\ pc = "rejected" => ByTitle /\ remote = Null
  /\ (pc = "done" /\ codeBlocks = <<>>)
       => /\ ByTitle => remote # Null /\ lines = remote.lines
          /\ ~ByTitle => lines = target.lines
          /\ \A j \in 1..Len(lines) :
               ~(/\ kinds[j].kind = "title"
                 /\ isMatchFilter(extractFromCodeTitle(lines[j].text),
                                  filter))

C11_Step ==
  (pc = "pull" /\ remote = Null) => pc' = "rejected"

C11_FailureSurfaces == []C11_State /\ [][C11_Step]_vars

C11_Witness ==
  /\ pc = "rejected"
  /\ pullCalls = 1
  /\ codeBlocks = <<>>

\* C12: pull() is called once for a call by title and never for preloaded
\* lines; it is called before the lines are resolved only, and the lines
\* are resolved before the first line is classified: once the loop runs no
\* step calls pull() or changes the lines.
C12_State ==
  /\ ~ByTitle => pullCalls = 0
  /\ ByTitle => pullCalls = (IF pc = "call" THEN 0 ELSE 1)
  /\ kinds # <<>> => pc \in {"loop", "done"}
  /\ pc \in {"call", "pull", "rejected"} => kinds = <<>> /\ pos = 1

C12_Step ==
  /\ pullCalls' # pullCalls => pc = "call" /\ pc' = "pull"
  /\ pc \in {"loop", "done"}
       => lines' = lines /\ pullCalls' = pullCalls /\ pc' \in {"loop", "done"}

C12_ResolvedOnceBeforeParsing == []C12_State /\ [][C12_Step]_vars

C12_Witness ==
  /\ pc = "done"
  /\ ByTitle
  /\ pullCalls = 1
  /\ Len(kinds) = MaxCallLines
  /\ codeBlocks # <<>>

\* the position in the page (from 1) of the line that v identifies, or 0
\* when v identifies no line of the page
Identified(v) ==
  IF isNone(v) THEN 0
  ELSE IF isNumber(v)
       THEN IF v.number + 1 \in 1..Len(page) THEN v.number + 1 ELSE 0
  ELSE LET found == {i \in 1..Len(page) : page[i].id = getLineId(v)}
       IN  IF found = {} THEN 0 ELSE SetMin(found)

\* C14: for a string line id or an element, getLineNo returns the index of
\* the line with that id, and undefined when no line of the page has it or
\* the id is empty: never a number that is not an index of the page.
C14_NotFoundIsUndefined ==
  (result.op = "getLineNo" /\ (isString(value) \/ value \in Elements))
    => /\ Identified(value) = 0 => result.ret = None
       /\ Identified(value) # 0
            => result.ret = Number(Identified(value) - 1)
       /\ result.ret # None => result.ret.number \in 0..(Len(page) - 1)

\* C19: getNextLine and getPrevLine return the line after and before the
\* line that the value identifies, and undefined when the value identifies
\* no line of the page or the line has no such neighbour.
C19_Neighbours ==
  LET k == Identified(value)
  IN  /\ result.op = "getNextLine"
           => result.ret = (IF k = 0 \/ k + 1 > Len(page) THEN None
                            ELSE page[k + 1])
      /\ result.op = "getPrevLine"
           => result.ret = (IF k = 0 \/ k - 1 < 1 THEN None
                            ELSE page[k - 1])

\* C20: getChars yields the character elements of the value once each in
\* document order, and getText of an element inside a line is the text of
\* the line from the least to the greatest of all their columns.
C20_EachCharOnce ==
  /\ result.op = "getChars" => result.ret = value.chars
  /\ (/\ result.op = "getText"
      /\ value \in Elements
      /\ "line" \notin value.classList
      /\ Identified(value) # 0
      /\ value.chars # <<>>)
       => result.ret
            = [text |-> SubSeq(page[Identified(value)].text, 1,
                               Smaller(Len(value.chars),
                                       Len(page[Identified(value)].text)))]

====
